---- MODULE Spec2Model ----
(***************************************************************************)
(* Model of src/isricv5.py: the /api/analyze handler (analyze_soil), its   *)
(* proximity lookup (find_closest_coordinates), the two fetchers           *)
(* (get_soil_data, get_weather_data), the rule engine                      *)
(* (generate_recommendations) and the SoilData table.                      *)
(*                                                                         *)
(* Representation of numbers:                                              *)
(*  - coordinates are fixed-point, in tenths of a degree (0.5 deg = 5);    *)
(*  - time is in seconds since an arbitrary UTC origin;                    *)
(*  - a pH value (phh2o / 10) is carried in tenths of a pH unit;           *)
(*  - an average formatted with :.1f is carried in tenths;                 *)
(*  - Python None is the integer Null, an absent dict key is NoKey.        *)
(***************************************************************************)
EXTENDS Integers, Sequences, FiniteSets, TLC

\* ------------------------------------------------------------------ bounds
MaxCalls == 3      \* requests started in one behaviour
MaxSpans == 1      \* two-day jumps of the clock in one behaviour
MaxSecs == 1       \* one-second ticks of the clock after each two-day jump
MaxForecast == 2   \* forecast days in a weather response

\* --------------------------------------------------------------- constants
Null == -1                \* Python None in a numeric position
NoKey == -2               \* a key that is absent from a dict
Threshold == 5            \* threshold=0.5 degrees, in tenths of a degree
TwoDays == 172800         \* timedelta(days=2), in seconds
HttpOk == 200

Procs == {"t1", "t2"}     \* request threads of the Flask server
MainThread == "t1"        \* the only thread of a server that is not threaded
\* The queries, <<lat, lon>> in tenths of a degree.
Points == {<<0, 0>>, <<1, 1>>, <<6, 0>>, <<6, 6>>}

Abs(x) == IF x < 0 THEN -x ELSE x

\* ------------------------------------------------------- SoilData (table)
\* One row of the SoilData table.  recommendations is the "; "-joined string,
\* carried as the set of its parts (the join order is the hash order of a
\* Python set and is not observable by any operation of the program).
NoRecord ==
    [id |-> 0, lat |-> 0, lon |-> 0, nitrogen |-> Null,
     nitrogen_uncertainty |-> Null, ph |-> Null, moisture |-> Null,
     cec |-> Null, temperature |-> Null, humidity |-> Null,
     recommendations |-> {}, predictions |-> "", date_recorded |-> 0]

\* The columns declared nullable=False that the handler fills from fetched data.
NotNullViolated(r) ==
    \/ r.nitrogen = Null
    \/ r.nitrogen_uncertainty = Null
    \/ r.ph = Null
    \/ r.moisture = Null
    \/ r.cec = Null
    \/ r.temperature = Null
    \/ r.humidity = Null

\* Integer primary key of an SQLite table: the new row takes the largest id
\* in the table plus one (1 in an empty table).
NextId(rows) == IF Len(rows) = 0 THEN 1 ELSE rows[Len(rows)].id + 1

\* Variant: an upsert, which keeps the table as it is when a row within the
\* threshold of the new one is stored.
DbAddUnlessNear(rows, r) ==
    IF \E i \in 1..Len(rows) :
           Abs(rows[i].lat - r.lat) <= 5 /\ Abs(rows[i].lon - r.lon) <= 5
    THEN rows
    ELSE Append(rows, [r EXCEPT !.id = IF Len(rows) = 0 THEN 1 ELSE rows[Len(rows)].id + 1])

\* db.session.add(new_record); db.session.commit(): the row gets its id and
\* takes its place in rowid order, the order in which query.all() scans.
Inserted(rows, r) == [r EXCEPT !.id = NextId(rows)]
DbAdd(rows, r) ==
    LET row == Inserted(rows, r)
    IN  SelectSeq(rows, LAMBDA x : x.id < row.id) \o <<row>>
            \o SelectSeq(rows, LAMBDA x : x.id > row.id)

\* db.session.delete(record); db.session.commit(): DELETE ... WHERE id = ?
DbDelete(rows, r) == SelectSeq(rows, LAMBDA x : x.id # r.id)

\* -------------------------------------------------- find_closest_coordinates
\* Variant: only a row at the very coordinates of the query matches.
NearExact(record, lat, lon, threshold) ==
    record.lat = lat /\ record.lon = lon

\* Variant: the bounds of the window are excluded.
NearStrict(record, lat, lon, threshold) ==
    Abs(record.lat - lat) < threshold /\ Abs(record.lon - lon) < threshold

Near(record, lat, lon, threshold) ==
    Abs(record.lat - lat) <= threshold /\ Abs(record.lon - lon) <= threshold

RECURSIVE ScanFrom(_, _, _, _, _)
ScanFrom(rows, i, lat, lon, threshold) ==
    IF i > Len(rows) THEN [found |-> FALSE, rec |-> NoRecord]
    ELSE IF Near(rows[i], lat, lon, threshold)
         THEN [found |-> TRUE, rec |-> rows[i]]
         ELSE ScanFrom(rows, i + 1, lat, lon, threshold)

\* Variant: the nearest matching row (per-axis distances added) wins.
Distance(record, lat, lon) == Abs(record.lat - lat) + Abs(record.lon - lon)
FindNearest(rows, lat, lon) ==
    LET m == {i \in 1..Len(rows) : Near(rows[i], lat, lon, Threshold)}
    IN  IF m = {} THEN [found |-> FALSE, rec |-> NoRecord]
        ELSE [found |-> TRUE,
              rec |-> rows[CHOOSE i \in m : \A j \in m :
                          \/ Distance(rows[i], lat, lon) < Distance(rows[j], lat, lon)
                          \/ /\ Distance(rows[i], lat, lon) = Distance(rows[j], lat, lon)
                             /\ i <= j]]

find_closest_coordinates(rows, lat, lon) == ScanFrom(rows, 1, lat, lon, Threshold)

\* ------------------------------------------------------------ get_soil_data
\* A layer of the SoilGrids payload: a dict with the keys name and depths;
\* depths[0].values carries mean and (optionally) uncertainty.  A layer whose
\* every value is null has name = "None" and hasDepths = FALSE.
Layer(name, mean, unc) ==
    [name |-> name, hasDepths |-> TRUE, mean |-> mean, uncertainty |-> unc]
NullLayer ==
    [name |-> "None", hasDepths |-> FALSE, mean |-> Null, uncertainty |-> Null]

AllValuesNone(layer) == layer.name = "None" /\ ~layer.hasDepths

\* The value the function returns: the list of layers, or the {"error": ...} dict.
get_soil_data(status, layers) ==
    IF status = HttpOk
    THEN IF \A i \in 1..Len(layers) : AllValuesNone(layers[i])
         THEN [isError |-> TRUE, layers |-> <<>>]
         ELSE [isError |-> FALSE, layers |-> layers]
    ELSE [isError |-> TRUE, layers |-> <<>>]

\* --------------------------------------------------------- get_weather_data
\* Variant: the status of the response is not checked.
GetWeatherAnyStatus(status, days) == [isNone |-> FALSE, days |-> days]

\* The forecastday list, or None on a non-200 status.
get_weather_data(status, days) ==
    IF status = HttpOk
    THEN [isNone |-> FALSE, days |-> days]
    ELSE [isNone |-> TRUE, days |-> <<>>]

\* Python truth value of the two results: a non-empty dict or list is true.
SoilTruthy(s) == s.isError \/ Len(s.layers) > 0
WeatherTruthy(w) == ~w.isNone /\ Len(w.days) > 0

\* ------------------------------------------------- generate_recommendations
Msg(kind, value) == [kind |-> kind, value |-> value]

\* dict.get(key, default): the default only when the key is absent.
Get(v, default) == IF v = NoKey THEN default ELSE v

RECURSIVE SumOf(_, _, _)
SumOf(days, field, i) ==
    IF i > Len(days) THEN 0 ELSE days[i][field] + SumOf(days, field, i + 1)

\* f"{sum / n:.1f}" in tenths: round half to even.
Round1(sum, n) ==
    LET q == (10 * sum) \div n
        r == (10 * sum) % n
    IN  IF 2 * r < n THEN q
        ELSE IF 2 * r > n THEN q + 1
        ELSE IF q % 2 = 0 THEN q ELSE q + 1

\* A comparison or a division with None raises TypeError.
RecommendationsRaise(soil_data) ==
    \/ Get(soil_data.phh2o, 0) = Null
    \/ Get(soil_data.nitrogen, 0) = Null
    \/ Get(soil_data.wv0010, 0) = Null
    \/ Get(soil_data.cec, 0) = Null

\* Variant: the lime branch takes a pH of exactly 6.
RecommendLimeAtSix(soil_data, weather_days) ==
    LET nitrogen == Get(soil_data.nitrogen, 0)
        moisture == Get(soil_data.wv0010, 0)
        ph10 == Get(soil_data.phh2o, 0)      \* phh2o / 10, in tenths
        cec == Get(soil_data.cec, 0)
        n == Len(weather_days)
        rain == SumOf(weather_days, "daily_chance_of_rain", 1)
        wind == SumOf(weather_days, "maxwind_kph", 1)
    IN  (IF nitrogen < 100 THEN {Msg("Consider adding nitrogen-based fertilizers.", 0)} ELSE {})
        \cup (IF 10 * moisture < 2 THEN {Msg("Soil moisture is low. Increase irrigation.", 0)} ELSE {})
        \cup (IF 60 < ph10 /\ ph10 < 75 THEN {Msg("Soil pH is within the optimal range.", 0)}
              ELSE IF ph10 <= 60 THEN {Msg("Consider adding lime to raise the pH.", 0)}
              ELSE IF ph10 > 75 THEN {Msg("Consider adding sulfur to lower the pH.", 0)}
              ELSE {})
        \cup (IF cec >= 10 THEN {Msg("CEC is within the optimal range.", 0)} ELSE {})
        \cup (IF n > 0 /\ rain > 50 * n
              THEN {Msg("High average chance of rain (%). Delay irrigation.", Round1(rain, n))}
              ELSE {})
        \cup (IF n > 0 /\ wind > 20 * n
              THEN {Msg("Strong winds expected ( kph). Protect crops.", Round1(wind, n))}
              ELSE {})

\* Variant: a nitrogen value of exactly 100 counts as low.
RecommendNitrogenAtMost(soil_data, weather_days) ==
    LET nitrogen == Get(soil_data.nitrogen, 0)
        moisture == Get(soil_data.wv0010, 0)
        ph10 == Get(soil_data.phh2o, 0)      \* phh2o / 10, in tenths
        cec == Get(soil_data.cec, 0)
        n == Len(weather_days)
        rain == SumOf(weather_days, "daily_chance_of_rain", 1)
        wind == SumOf(weather_days, "maxwind_kph", 1)
    IN  (IF nitrogen <= 100 THEN {Msg("Consider adding nitrogen-based fertilizers.", 0)} ELSE {})
        \cup (IF 10 * moisture < 2 THEN {Msg("Soil moisture is low. Increase irrigation.", 0)} ELSE {})
        \cup (IF 60 < ph10 /\ ph10 < 75 THEN {Msg("Soil pH is within the optimal range.", 0)}
              ELSE IF ph10 < 60 THEN {Msg("Consider adding lime to raise the pH.", 0)}
              ELSE IF ph10 > 75 THEN {Msg("Consider adding sulfur to lower the pH.", 0)}
              ELSE {})
        \cup (IF cec >= 10 THEN {Msg("CEC is within the optimal range.", 0)} ELSE {})
        \cup (IF n > 0 /\ rain > 50 * n
              THEN {Msg("High average chance of rain (%). Delay irrigation.", Round1(rain, n))}
              ELSE {})
        \cup (IF n > 0 /\ wind > 20 * n
              THEN {Msg("Strong winds expected ( kph). Protect crops.", Round1(wind, n))}
              ELSE {})

\* Variant: the weather rules look at the first forecast day alone.
RecommendFirstDay(soil_data, weather_days) ==
    LET nitrogen == Get(soil_data.nitrogen, 0)
        moisture == Get(soil_data.wv0010, 0)
        ph10 == Get(soil_data.phh2o, 0)      \* phh2o / 10, in tenths
        cec == Get(soil_data.cec, 0)
        n == Len(weather_days)
        rain == IF n = 0 THEN 0 ELSE n * weather_days[1].daily_chance_of_rain
        wind == IF n = 0 THEN 0 ELSE n * weather_days[1].maxwind_kph
    IN  (IF nitrogen < 100 THEN {Msg("Consider adding nitrogen-based fertilizers.", 0)} ELSE {})
        \cup (IF 10 * moisture < 2 THEN {Msg("Soil moisture is low. Increase irrigation.", 0)} ELSE {})
        \cup (IF 60 < ph10 /\ ph10 < 75 THEN {Msg("Soil pH is within the optimal range.", 0)}
              ELSE IF ph10 < 60 THEN {Msg("Consider adding lime to raise the pH.", 0)}
              ELSE IF ph10 > 75 THEN {Msg("Consider adding sulfur to lower the pH.", 0)}
              ELSE {})
        \cup (IF cec >= 10 THEN {Msg("CEC is within the optimal range.", 0)} ELSE {})
        \cup (IF n > 0 /\ rain > 50 * n
              THEN {Msg("High average chance of rain (%). Delay irrigation.", Round1(rain, n))}
              ELSE {})
        \cup (IF n > 0 /\ wind > 20 * n
              THEN {Msg("Strong winds expected ( kph). Protect crops.", Round1(wind, n))}
              ELSE {})

generate_recommendations(soil_data, weather_days) ==
    LET nitrogen == Get(soil_data.nitrogen, 0)
        moisture == Get(soil_data.wv0010, 0)
        ph10 == Get(soil_data.phh2o, 0)      \* phh2o / 10, in tenths
        cec == Get(soil_data.cec, 0)
        n == Len(weather_days)
        rain == SumOf(weather_days, "daily_chance_of_rain", 1)
        wind == SumOf(weather_days, "maxwind_kph", 1)
    IN  (IF nitrogen < 100 THEN {Msg("Consider adding nitrogen-based fertilizers.", 0)} ELSE {})
        \cup (IF 10 * moisture < 2 THEN {Msg("Soil moisture is low. Increase irrigation.", 0)} ELSE {})
        \cup (IF 60 < ph10 /\ ph10 < 75 THEN {Msg("Soil pH is within the optimal range.", 0)}
              ELSE IF ph10 < 60 THEN {Msg("Consider adding lime to raise the pH.", 0)}
              ELSE IF ph10 > 75 THEN {Msg("Consider adding sulfur to lower the pH.", 0)}
              ELSE {})
        \cup (IF cec >= 10 THEN {Msg("CEC is within the optimal range.", 0)} ELSE {})
        \cup (IF n > 0 /\ rain > 50 * n
              THEN {Msg("High average chance of rain (%). Delay irrigation.", Round1(rain, n))}
              ELSE {})
        \cup (IF n > 0 /\ wind > 20 * n
              THEN {Msg("Strong winds expected ( kph). Protect crops.", Round1(wind, n))}
              ELSE {})

\* ------------------------------------------------------------- date/time
\* An aware datetime: wall-clock seconds and the UTC offset of its tzinfo.
UtcNow(t) == [secs |-> t, offset |-> 0]            \* datetime.now(timezone.utc)
StoreDateTime(dt) == dt.secs                       \* the DateTime column keeps the wall clock
ReplaceTzUtc(naive) == [secs |-> naive, offset |-> 0]   \* .replace(tzinfo=timezone.utc)
Minus(a, b) == (a.secs - a.offset) - (b.secs - b.offset)

\* Variant: a record of exactly two days counts as old.
TwoDaysOrOlder(record, t) ==
    Minus(UtcNow(t), ReplaceTzUtc(record.date_recorded)) >= TwoDays

\* datetime.now(timezone.utc) - existing_record.date_recorded > timedelta(days=2)
OlderThanTwoDays(record, t) ==
    Minus(UtcNow(t), ReplaceTzUtc(record.date_recorded)) > TwoDays

\* ------------------------------------------------------- fetcher responses
HttpStatuses == {HttpOk, 503}

\* SoilGrids payloads: every named layer present, one of them missing, none
\* of them present (another layer only), no layer at all, a null layer.
Nitrogen == Layer("nitrogen", 50, 3)
NitrogenNoUnc == Layer("nitrogen", 150, NoKey)
Ph == Layer("phh2o", 65, NoKey)
Wv == Layer("wv0010", 30, NoKey)
Cec == Layer("cec", 12, NoKey)
Soc == Layer("soc", 40, NoKey)
SoilPayloads ==
    {<<Soc, NitrogenNoUnc, Ph, Wv, Cec>>,
     <<Ph, Wv, Cec>>, <<Nitrogen, Wv, Cec>>, <<Nitrogen, Ph, Cec>>,
     <<Nitrogen, Ph, Wv>>, <<Soc>>, <<>>, <<NullLayer>>}

Day(rain, wind, temp, hum) ==
    [daily_chance_of_rain |-> rain, maxwind_kph |-> wind,
     avgtemp_c |-> temp, avghumidity |-> hum]
Days == {Day(80, 25, 21, 60)}
Forecasts == UNION {[1..n -> Days] : n \in 0..MaxForecast}

\* ------------------------------------------------------------------ state
VARIABLES
    store,            \* rows of the SoilData table, in rowid order
    now,              \* the UTC clock, in seconds
    calls,            \* requests started so far
    threaded,         \* whether the server handles requests concurrently
    pc,               \* per request thread: position in analyze_soil
    lat, lon,         \* per request thread: the parsed query
    existing_record,  \* per request thread: the result of the lookup
    soil_data,        \* per request thread: the result of get_soil_data
    new_record,       \* per request thread: the row this request inserted
    fetched,          \* per request thread: what the fetchers of this request answered
    order,            \* history: the stored rows in the order of their insertion
    follow,           \* history: what the previous request of this thread returned,
                      \* kept when this request asks for its query + (0.1, 0.1)
    resp,             \* per request thread: the response returned to the caller
    rule_input,       \* a call of generate_recommendations on its own: the arguments
    rule_output       \* a call of generate_recommendations on its own: the outcome

vars == <<store, now, calls, threaded, pc, lat, lon, existing_record,
          soil_data, new_record, fetched, order, follow, resp,
          rule_input, rule_output>>

NoLookup == [found |-> FALSE, rec |-> NoRecord]
NoSoil == [isError |-> FALSE, layers |-> <<>>]
\* What each upstream service answered to this request: "none" (not asked),
\* "ok", or "failed" (soil: a non-200 status or a payload with no non-null
\* value; weather: a non-200 status or no forecast day).
NoFetch == [soil |-> "none", weather |-> "none"]
SoilAnswer(status, layers) ==
    IF status = HttpOk /\ \E i \in 1..Len(layers) : layers[i] # NullLayer
    THEN "ok" ELSE "failed"
WeatherAnswer(status, days) ==
    IF status = HttpOk /\ days # <<>> THEN "ok" ELSE "failed"
NoFollow == [status |-> "none", rec |-> NoRecord]

Response(status, http, nitrogen, unc, ph10, moisture, cec, temp, hum, preds, recs) ==
    [status |-> status, http |-> http, nitrogen |-> nitrogen,
     nitrogen_uncertainty |-> unc, ph10 |-> ph10, moisture |-> moisture,
     cec |-> cec, temperature |-> temp, humidity |-> hum,
     predictions |-> preds, recommendations |-> recs]
NoResponse == Response("none", 0, Null, Null, Null, Null, Null, Null, Null, "", {})
\* jsonify({'error': 'Failed to fetch data.'}), 500
FetchFailed == Response("Failed to fetch data.", 500, Null, Null, Null, Null, Null, Null, Null, "", {})
\* an exception that leaves the handler: Flask answers 500 Internal Server Error
Unhandled == Response("exception", 500, Null, Null, Null, Null, Null, Null, Null, "", {})

InitCommon ==
    /\ store = <<>>
    /\ now = 0
    /\ calls = 0
    /\ pc = [p \in Procs |-> "idle"]
    /\ lat = [p \in Procs |-> 0]
    /\ lon = [p \in Procs |-> 0]
    /\ existing_record = [p \in Procs |-> NoLookup]
    /\ soil_data = [p \in Procs |-> NoSoil]
    /\ new_record = [p \in Procs |-> NoRecord]
    /\ order = <<>>
    /\ follow = [p \in Procs |-> NoFollow]
    /\ fetched = [p \in Procs |-> NoFetch]
    /\ resp = [p \in Procs |-> NoResponse]

\* No call of generate_recommendations outside a request.
NoRuleInput == [soil |-> [nitrogen |-> 0, wv0010 |-> 0, phh2o |-> 0, cec |-> 0], days |-> <<>>]
NoRuleOutput == [called |-> FALSE, raised |-> FALSE, msgs |-> {}]
NoRules == rule_input = NoRuleInput /\ rule_output = NoRuleOutput

\* app.run(debug=True): the development server is threaded.
Init == InitCommon /\ NoRules /\ threaded = TRUE
\* The same application behind a server that handles one request at a time.
InitSeq == InitCommon /\ NoRules /\ threaded = FALSE

Idle(p) == pc[p] \in {"idle", "done"}

\* ---------------------------------------------------------- analyze_soil
\* What the request that has just ended on thread p returned, when the next
\* query is that request's query moved by 0.1 degree on both axes.
Followed(p, qlat, qlon) ==
    IF pc[p] = "done" /\ qlat = lat[p] + 1 /\ qlon = lon[p] + 1
    THEN IF resp[p].status = "success"
         THEN [status |-> "success", rec |-> new_record[p]]
         ELSE IF resp[p].status = "found"
         THEN [status |-> "found", rec |-> existing_record[p].rec]
         ELSE NoFollow
    ELSE NoFollow

\* Lines 107-112: a request arrives, the query is parsed, the table is
\* scanned; with no record found the handler goes on to the fetches.
Start(p, qlat, qlon) ==
    /\ Idle(p)
    /\ calls < MaxCalls
    /\ threaded \/ (p = MainThread /\ \A q \in Procs : Idle(q))
    /\ calls' = calls + 1
    /\ lat' = [lat EXCEPT ![p] = qlat]
    /\ lon' = [lon EXCEPT ![p] = qlon]
    /\ existing_record' =
           [existing_record EXCEPT ![p] = find_closest_coordinates(store, qlat, qlon)]
    /\ soil_data' = [soil_data EXCEPT ![p] = NoSoil]
    /\ new_record' = [new_record EXCEPT ![p] = NoRecord]
    /\ fetched' = [fetched EXCEPT ![p] = NoFetch]
    /\ resp' = [resp EXCEPT ![p] = NoResponse]
    /\ follow' = [follow EXCEPT ![p] = Followed(p, qlat, qlon)]
    /\ pc' = [pc EXCEPT ![p] =
                 IF find_closest_coordinates(store, qlat, qlon).found
                 THEN "check" ELSE "soil"]
    /\ UNCHANGED <<store, order, now, threaded, rule_input, rule_output>>

\* Lines 116-118: the record found is older than two days and is deleted.
Evict(p) ==
    /\ pc[p] = "check"
    /\ OlderThanTwoDays(existing_record[p].rec, now)
    /\ store' = DbDelete(store, existing_record[p].rec)
    /\ order' = SelectSeq(order, LAMBDA x : x.id # existing_record[p].rec.id)
    /\ pc' = [pc EXCEPT ![p] = "soil"]
    /\ UNCHANGED <<now, calls, threaded, rule_input, rule_output, lat, lon, existing_record,
                   soil_data, new_record, fetched, follow, resp>>

\* Lines 119-134: the record found is returned.
FoundResponse(r) ==
    Response("found", HttpOk, r.nitrogen, r.nitrogen_uncertainty, 10 * r.ph,
             r.moisture, r.cec, r.temperature, r.humidity, r.predictions,
             r.recommendations)

\* Variant: the date assigned at line 114 is written back with the time of the hit.
CacheHitTouch(p) ==
    /\ pc[p] = "check"
    /\ ~OlderThanTwoDays(existing_record[p].rec, now)
    /\ resp' = [resp EXCEPT ![p] = FoundResponse(existing_record[p].rec)]
    /\ pc' = [pc EXCEPT ![p] = "done"]
    /\ store' = [i \in 1..Len(store) |->
                    IF store[i].id = existing_record[p].rec.id
                    THEN [store[i] EXCEPT !.date_recorded = StoreDateTime(UtcNow(now))]
                    ELSE store[i]]
    /\ UNCHANGED <<order, now, calls, threaded, rule_input, rule_output, lat, lon, existing_record,
                   soil_data, new_record, fetched, follow>>

CacheHit(p) ==
    /\ pc[p] = "check"
    /\ ~OlderThanTwoDays(existing_record[p].rec, now)
    /\ resp' = [resp EXCEPT ![p] = FoundResponse(existing_record[p].rec)]
    /\ pc' = [pc EXCEPT ![p] = "done"]
    /\ UNCHANGED <<store, order, now, calls, threaded, rule_input, rule_output, lat, lon, existing_record,
                   soil_data, new_record, fetched, follow>>

\* Line 137.
FetchSoil(p, status, layers) ==
    /\ pc[p] = "soil"
    /\ soil_data' = [soil_data EXCEPT ![p] = get_soil_data(status, layers)]
    /\ fetched' = [fetched EXCEPT ![p].soil = SoilAnswer(status, layers)]
    /\ pc' = [pc EXCEPT ![p] = "weather"]
    /\ UNCHANGED <<store, order, now, calls, threaded, rule_input, rule_output, lat, lon, existing_record,
                   new_record, follow, resp>>

\* Line 139: if not soil_data or not weather_data.
FetchCheckFails(s, w) == ~SoilTruthy(s) \/ ~WeatherTruthy(w)

\* Lines 142-145: next((layer for layer in soil_data if layer['name'] == name), None)
RECURSIVE FirstLayer(_, _, _)
FirstLayer(layers, name, i) ==
    IF i > Len(layers) THEN [found |-> FALSE, layer |-> NullLayer]
    ELSE IF layers[i].name = name THEN [found |-> TRUE, layer |-> layers[i]]
    ELSE FirstLayer(layers, name, i + 1)

\* layer['depths'][0]['values'].get('mean') if layer else None
MeanOf(layers, name) ==
    LET l == FirstLayer(layers, name, 1)
    IN  IF l.found THEN Get(l.layer.mean, Null) ELSE Null

\* Lines 148-154.
UncertaintyOf(layers) ==
    LET l == FirstLayer(layers, "nitrogen", 1)
    IN  IF l.found THEN Get(l.layer.uncertainty, 0) ELSE Null

\* Lines 172-177: the dict handed to generate_recommendations.
RuleInput(layers) ==
    [nitrogen |-> MeanOf(layers, "nitrogen"), wv0010 |-> MeanOf(layers, "wv0010"),
     phh2o |-> MeanOf(layers, "phh2o"), cec |-> MeanOf(layers, "cec")]

\* Lines 162-180.
NewRecord(qlat, qlon, layers, days, t) ==
    [id |-> 0, lat |-> qlat, lon |-> qlon,
     nitrogen |-> MeanOf(layers, "nitrogen"),
     nitrogen_uncertainty |-> UncertaintyOf(layers),
     ph |-> MeanOf(layers, "phh2o"),
     moisture |-> MeanOf(layers, "wv0010"),
     cec |-> MeanOf(layers, "cec"),
     temperature |-> days[1].avgtemp_c,
     humidity |-> days[1].avghumidity,
     recommendations |-> generate_recommendations(RuleInput(layers), days),
     predictions |-> "",
     date_recorded |-> StoreDateTime(UtcNow(t))]

\* Lines 185-197.
SuccessResponse(r) ==
    Response("success", HttpOk, r.nitrogen, r.nitrogen_uncertainty, r.ph,
             r.moisture, r.cec, r.temperature, r.humidity, "<absent>",
             r.recommendations)

\* An exception leaves the handler between line 142 and line 183: iterating
\* the error dict (line 142), a None in generate_recommendations (lines
\* 69-83), or a NOT NULL column left None at the commit (line 183).
Raises(s, w, qlat, qlon, t) ==
    \/ s.isError
    \/ RecommendationsRaise(RuleInput(s.layers))
    \/ NotNullViolated(NewRecord(qlat, qlon, s.layers, w.days, t))

\* Line 138, then the end of the request.
Finish(p, status, days, r) ==
    /\ pc[p] = "weather"
    /\ fetched' = [fetched EXCEPT ![p].weather = WeatherAnswer(status, days)]
    /\ resp' = [resp EXCEPT ![p] = r]
    /\ pc' = [pc EXCEPT ![p] = "done"]
    /\ soil_data' = [soil_data EXCEPT ![p] = NoSoil]
    /\ UNCHANGED <<now, calls, threaded, rule_input, rule_output, lat, lon, existing_record, follow>>

\* Lines 138-140: the weather response arrives and the fetch check fails.
FailFetch(p, status, days) ==
    /\ FetchCheckFails(soil_data[p], get_weather_data(status, days))
    /\ Finish(p, status, days, FetchFailed)
    /\ UNCHANGED <<store, order, new_record>>

\* Lines 138-183: the weather response arrives, the fetch check passes and
\* an exception is raised; the session is rolled back.
RaiseError(p, status, days) ==
    /\ ~FetchCheckFails(soil_data[p], get_weather_data(status, days))
    /\ Raises(soil_data[p], get_weather_data(status, days), lat[p], lon[p], now)
    /\ Finish(p, status, days, Unhandled)
    /\ UNCHANGED <<store, order, new_record>>

\* Lines 138-197: the weather response arrives, the record is built,
\* inserted and returned.
Persist(p, status, days) ==
    /\ ~FetchCheckFails(soil_data[p], get_weather_data(status, days))
    /\ ~Raises(soil_data[p], get_weather_data(status, days), lat[p], lon[p], now)
    /\ LET r == NewRecord(lat[p], lon[p], soil_data[p].layers,
                          get_weather_data(status, days).days, now)
       IN  /\ store' = DbAdd(store, r)
           /\ order' = Append(order, Inserted(store, r))
           /\ new_record' = [new_record EXCEPT ![p] = Inserted(store, r)]
           /\ Finish(p, status, days, SuccessResponse(r))

\* ------------------------------------------------------------------ clock
TickSecond ==
    /\ now % TwoDays < MaxSecs
    /\ now' = now + 1
    /\ UNCHANGED <<store, order, calls, threaded, rule_input, rule_output, pc, lat, lon, existing_record,
                   soil_data, new_record, fetched, follow, resp>>

TickTwoDays ==
    /\ now \div TwoDays < MaxSpans
    /\ now' = now + TwoDays
    /\ UNCHANGED <<store, order, calls, threaded, rule_input, rule_output, pc, lat, lon, existing_record,
                   soil_data, new_record, fetched, follow, resp>>

Next ==
    \/ \E p \in Procs, q \in Points : Start(p, q[1], q[2])
    \/ \E p \in Procs : Evict(p)
    \/ \E p \in Procs : CacheHit(p)
    \/ \E p \in Procs, status \in HttpStatuses, layers \in SoilPayloads :
           FetchSoil(p, status, layers)
    \/ \E p \in Procs, status \in HttpStatuses, days \in Forecasts :
           FailFetch(p, status, days)
    \/ \E p \in Procs, status \in HttpStatuses, days \in Forecasts :
           RaiseError(p, status, days)
    \/ \E p \in Procs, status \in HttpStatuses, days \in Forecasts :
           Persist(p, status, days)
    \/ TickSecond
    \/ TickTwoDays

\* The threaded development server.
Spec == Init /\ [][Next]_vars
\* One request at a time.
SpecSeq == InitSeq /\ [][Next]_vars

\* ------------------------------------- generate_recommendations on its own
\* The arguments of a call: the dict of four measurements, each a number or
\* None, and the list of forecast days.
NitrogenValues == {Null, 50, 100, 150}
MoistureValues == {Null, 0, 30}
PhValues == {Null, 50, 60, 65, 75, 80}
CecValues == {Null, 5, 12}
RuleDays == {Day(80, 25, 21, 60), Day(40, 25, 21, 60), Day(20, 15, 21, 60)}
RuleForecasts == UNION {[1..n -> RuleDays] : n \in 0..MaxForecast}
RuleInputs ==
    [soil : [nitrogen : NitrogenValues, wv0010 : MoistureValues,
             phh2o : PhValues, cec : CecValues],
     days : RuleForecasts]

InitRules ==
    /\ InitCommon
    /\ threaded = FALSE
    /\ rule_input \in RuleInputs
    /\ rule_output = NoRuleOutput

\* Lines 66-94: one call, which returns the messages or raises TypeError.
Recommend ==
    /\ ~rule_output.called
    /\ rule_output' =
           IF RecommendationsRaise(rule_input.soil)
           THEN [called |-> TRUE, raised |-> TRUE, msgs |-> {}]
           ELSE [called |-> TRUE, raised |-> FALSE,
                 msgs |-> generate_recommendations(rule_input.soil, rule_input.days)]
    /\ UNCHANGED <<store, order, now, calls, threaded, pc, lat, lon, existing_record,
                   soil_data, new_record, fetched, follow, resp, rule_input>>

NextRules == Recommend

\* generate_recommendations called on every combination of its arguments.
SpecRules == InitRules /\ [][NextRules]_vars

\* ================================================================ claims
\* A record lies in the window of a query: each axis differs by at most 0.5.
Within(r, qlat, qlon) ==
    /\ r.lat - qlat <= 5 /\ qlat - r.lat <= 5
    /\ r.lon - qlon <= 5 /\ qlon - r.lon <= 5

Matching(rows, qlat, qlon) == {i \in 1..Len(rows) : Within(rows[i], qlat, qlon)}
Earliest(set) == CHOOSE i \in set : \A j \in set : i <= j
Stored(rows) == {rows[i] : i \in 1..Len(rows)}
AgeOf(r) == now - r.date_recorded

\* The fields of a stored record as a cache hit reports them.
Reports(response, r) ==
    /\ response.status = "found"
    /\ response.nitrogen = r.nitrogen
    /\ response.nitrogen_uncertainty = r.nitrogen_uncertainty
    /\ response.ph10 = 10 * r.ph
    /\ response.moisture = r.moisture
    /\ response.cec = r.cec
    /\ response.temperature = r.temperature
    /\ response.humidity = r.humidity
    /\ response.predictions = r.predictions
    /\ response.recommendations = r.recommendations

\* Thread p takes the step that follows its lookup.
LeavesCheck(p) == pc[p] = "check" /\ pc'[p] # "check"
\* Thread p takes the step that starts a request and scans the table.
Looks(p) == pc[p] \in {"idle", "done"} /\ pc'[p] \in {"check", "soil"}

\* C1: with requests handled one at a time, when the first stored record in
\* the window of the query is at most two days old, the request returns that
\* record, invokes neither fetcher and leaves the table as it was.
C1_FreshHitFrame ==
    [][\A p \in Procs :
        (/\ LeavesCheck(p)
         /\ Matching(store, lat[p], lon[p]) # {}
         /\ AgeOf(store[Earliest(Matching(store, lat[p], lon[p]))]) <= 172800)
        => /\ pc'[p] = "done"
           /\ Reports(resp'[p], store[Earliest(Matching(store, lat[p], lon[p]))])
           /\ fetched'[p] = NoFetch
           /\ store' = store]_vars

C1_Witness ==
    \E p \in Procs :
        /\ pc[p] = "done"
        /\ resp[p].status = "found"
        /\ fetched[p] = NoFetch
        /\ existing_record[p].rec \in Stored(store)
        /\ AgeOf(existing_record[p].rec) > 0

\* C2: with requests handled one at a time, a record found by the lookup is
\* returned as a cache hit and kept exactly when its age is at most two days
\* (so at exactly two days); when it is older (so at two days and one second)
\* it is deleted by that request, which goes on to the fetches, and a cache
\* hit never reports a record older than two days.
C2_FreshnessBoundary ==
    [][\A p \in Procs :
        /\ LeavesCheck(p) =>
              IF AgeOf(existing_record[p].rec) <= 172800
              THEN /\ pc'[p] = "done"
                   /\ Reports(resp'[p], existing_record[p].rec)
                   /\ existing_record[p].rec \in Stored(store')
              ELSE /\ pc'[p] = "soil"
                   /\ resp'[p].status = "none"
                   /\ existing_record[p].rec \notin Stored(store')
        /\ (resp'[p].status = "found" /\ resp[p].status # "found")
              => pc[p] = "check" /\ AgeOf(existing_record[p].rec) <= 172800]_vars

C2_Witness ==
    \E p \in Procs :
        /\ pc[p] = "done"
        /\ resp[p].status = "found"
        /\ AgeOf(existing_record[p].rec) = 172800
        /\ existing_record[p].rec \in Stored(store)

\* The other side of the boundary: a record of two days and one second evicted.
C2_WitnessStale ==
    \E p \in Procs :
        /\ pc[p] = "soil"
        /\ existing_record[p].found
        /\ AgeOf(existing_record[p].rec) = 172801
        /\ existing_record[p].rec \notin Stored(store)

\* C3: the lookup finds a record exactly when some stored record differs from
\* the query by at most 0.5 on the latitude and by at most 0.5 on the
\* longitude, each axis on its own, and the record it returns is such a record.
C3_ProximityBoundary ==
    [][\A p \in Procs :
        Looks(p) =>
           /\ existing_record'[p].found
                 <=> (\E r \in Stored(store) : Within(r, lat'[p], lon'[p]))
           /\ existing_record'[p].found
                 => /\ existing_record'[p].rec \in Stored(store)
                    /\ Within(existing_record'[p].rec, lat'[p], lon'[p])]_vars

\* A record found at exactly 0.5 on both axes.
C3_Witness ==
    \E p \in Procs :
        /\ pc[p] = "check"
        /\ Abs(existing_record[p].rec.lat - lat[p]) = 5
        /\ Abs(existing_record[p].rec.lon - lon[p]) = 5

\* A lookup that misses a record 0.6 away on one axis and 0 on the other.
C3_WitnessMiss ==
    \E p \in Procs :
        /\ pc[p] = "soil"
        /\ ~existing_record[p].found
        /\ \E r \in Stored(store) : Abs(r.lat - lat[p]) = 6 /\ r.lon = lon[p]
        /\ \E r \in Stored(store) : Abs(r.lon - lon[p]) = 6 /\ r.lat = lat[p]

Finishes(p) == pc[p] = "weather" /\ pc'[p] = "done"
BothOk == [soil |-> "ok", weather |-> "ok"]
NamedLayers == {"nitrogen", "phh2o", "wv0010", "cec"}
MissingNamed(layers) ==
    {n \in NamedLayers : \A i \in 1..Len(layers) : layers[i].name # n}

\* C5: with requests handled one at a time, a request whose lookup found a
\* record older than two days has, once it has ended, invoked both fetchers
\* and left that record out of the table, and when both fetchers succeeded it
\* has inserted a new record and answers with it.
C5_StaleHitAsMiss ==
    \A p \in Procs :
        (pc[p] = "done" /\ existing_record[p].found /\ resp[p].status # "found")
        => /\ fetched[p].soil # "none" /\ fetched[p].weather # "none"
           /\ existing_record[p].rec \notin Stored(store)
           /\ fetched[p] = BothOk
                 => /\ resp[p].status = "success"
                    /\ new_record[p] \in Stored(store)
                    /\ new_record[p].date_recorded
                          > existing_record[p].rec.date_recorded + 172800

\* The part of C5 that the code keeps: the eviction removes the record found
\* and no other, the other rows keep their fields and their order, and the
\* request goes on to the fetches.
C5_EvictsExactlyThat ==
    [][\A p \in Procs :
        (LeavesCheck(p) /\ AgeOf(existing_record[p].rec) > 172800)
        => /\ pc'[p] = "soil"
           /\ \E i \in 1..Len(store) :
                 /\ store[i] = existing_record[p].rec
                 /\ store' = SubSeq(store, 1, i - 1) \o SubSeq(store, i + 1, Len(store))
           /\ \A r \in Stored(store) :
                 (r # existing_record[p].rec /\ Within(r, lat[p], lon[p]))
                    => r \in Stored(store')]_vars

\* A stale record evicted while another record in the window stays.
C5_WitnessOthersKept ==
    \E p \in Procs :
        /\ pc[p] = "soil"
        /\ existing_record[p].found
        /\ existing_record[p].rec \notin Stored(store)
        /\ \E r \in Stored(store) : Within(r, lat[p], lon[p])

\* C6: a record is inserted only by the step that ends a request whose two
\* fetchers both succeeded in that request; a request one of whose fetchers
\* failed ends with an error status and inserts nothing.
C6_InsertOnlyAfterBothFetches ==
    [][/\ (Stored(store') \ Stored(store) # {})
             => \E p \in Procs :
                    /\ Finishes(p)
                    /\ fetched[p].soil = "ok"
                    /\ fetched'[p] = BothOk
                    /\ resp'[p].status = "success"
       /\ \A p \in Procs :
             (Finishes(p) /\ fetched'[p] # BothOk)
             => resp'[p].http = 500 /\ store' = store]_vars

C6_Witness ==
    \E p \in Procs :
        /\ pc[p] = "done"
        /\ resp[p].status = "success"
        /\ fetched[p] = BothOk
        /\ new_record[p] \in Stored(store)

\* A request that ended after a failed fetch, with nothing inserted.
C6_WitnessFailure ==
    \E p \in Procs :
        /\ pc[p] = "done"
        /\ fetched[p].soil = "failed"
        /\ fetched[p].weather = "ok"
        /\ resp[p].http = 500
        /\ store = <<>>

\* C7: a request whose soil fetch failed ends with the fetch-failure answer
\* ('Failed to fetch data.', 500), the answer it gives when the weather fetch
\* fails.
C7_SoilFailureReported ==
    \A p \in Procs :
        (pc[p] = "done" /\ fetched[p].soil = "failed") => resp[p] = FetchFailed

\* C8: a request whose two fetchers succeeded and whose soil payload lacks
\* some of the layers nitrogen, phh2o, wv0010, cec ends with success and has
\* inserted a record whose fields for the missing layers are null, with a
\* nitrogen uncertainty of 0 when the nitrogen layer is missing.
C8_MissingLayersPersisted ==
    [][\A p \in Procs :
        (/\ Finishes(p)
         /\ fetched'[p] = BothOk
         /\ MissingNamed(soil_data[p].layers) # {})
        => /\ resp'[p].status = "success"
           /\ new_record'[p] \in Stored(store')
           /\ "nitrogen" \in MissingNamed(soil_data[p].layers)
                 => /\ new_record'[p].nitrogen = Null
                    /\ new_record'[p].nitrogen_uncertainty = 0
           /\ "phh2o" \in MissingNamed(soil_data[p].layers) => new_record'[p].ph = Null
           /\ "wv0010" \in MissingNamed(soil_data[p].layers)
                 => new_record'[p].moisture = Null
           /\ "cec" \in MissingNamed(soil_data[p].layers) => new_record'[p].cec = Null]_vars

OnlyMatch(rows, r, qlat, qlon) ==
    /\ r \in Stored(rows)
    /\ \A x \in Stored(rows) : Within(x, qlat, qlon) <=> x = r

C10_InsertIgnoresNearby ==
    [][\A p \in Procs :
        (/\ Finishes(p)
         /\ resp'[p].status = "success"
         /\ ~existing_record[p].found
         /\ \E r \in Stored(store) : Within(r, lat[p], lon[p]) /\ AgeOf(r) <= 172800)
        => \E r \in Stored(store) :
              /\ Within(r, lat[p], lon[p]) /\ AgeOf(r) <= 172800
              /\ r \in Stored(store')
              /\ new_record'[p] \in Stored(store')
              /\ new_record'[p] # r
              /\ Within(r, new_record'[p].lat, new_record'[p].lon)
              /\ now - new_record'[p].date_recorded <= 172800]_vars

\* Both requests missed at the lookup, both inserted: two records at most two
\* days old, within 0.5 of each other on both axes.
C10_Witness ==
    \E p, q \in Procs :
        /\ p # q
        /\ pc[p] = "done" /\ pc[q] = "done"
        /\ ~existing_record[p].found /\ ~existing_record[q].found
        /\ resp[p].status = "success" /\ resp[q].status = "success"
        /\ new_record[p] \in Stored(store) /\ new_record[q] \in Stored(store)
        /\ new_record[p] # new_record[q]
        /\ Within(new_record[p], new_record[q].lat, new_record[q].lon)
        /\ AgeOf(new_record[p]) <= 172800 /\ AgeOf(new_record[q]) <= 172800

\* C11: with requests handled one at a time, the table never holds two
\* records, each at most two days old, whose latitudes differ by at most 0.5
\* and whose longitudes differ by at most 0.5.
C11_OneFreshPerLocation ==
    \A i, j \in 1..Len(store) :
        (i # j /\ AgeOf(store[i]) <= 172800 /\ AgeOf(store[j]) <= 172800)
        => ~Within(store[i], store[j].lat, store[j].lon)

\* The call of generate_recommendations has returned its messages.
Returned == rule_output.called /\ ~rule_output.raised
Kinds == {m.kind : m \in rule_output.msgs}
Fertilizer == "Consider adding nitrogen-based fertilizers."
Irrigation == "Soil moisture is low. Increase irrigation."
Optimal == "Soil pH is within the optimal range."
Lime == "Consider adding lime to raise the pH."
Sulfur == "Consider adding sulfur to lower the pH."
CecOptimal == "CEC is within the optimal range."
Rain == "High average chance of rain (%). Delay irrigation."
Wind == "Strong winds expected ( kph). Protect crops."

\* C12: a call that returns emits the optimal-pH message exactly when
\* 6 < phRaw/10 < 7.5, the lime message exactly when phRaw/10 < 6, the sulfur
\* message exactly when phRaw/10 > 7.5, never two of the three, and none of
\* them at phRaw = 60 and at phRaw = 75.
C12_PhBranching ==
    Returned =>
        LET phRaw == rule_input.soil.phh2o
        IN  /\ Optimal \in Kinds <=> (60 < phRaw /\ phRaw < 75)
            /\ Lime \in Kinds <=> phRaw < 60
            /\ Sulfur \in Kinds <=> phRaw > 75
            /\ Cardinality(Kinds \cap {Optimal, Lime, Sulfur}) <= 1
            /\ phRaw \in {60, 75} => Kinds \cap {Optimal, Lime, Sulfur} = {}

\* phRaw = 60: no pH message.
C12_Witness ==
    /\ Returned
    /\ rule_input.soil.phh2o = 60
    /\ Kinds \cap {Optimal, Lime, Sulfur} = {}

\* phRaw = 65, 50, 80 and 75: optimal only, lime only, sulfur only, none.
C12_WitnessOptimal ==
    Returned /\ rule_input.soil.phh2o = 65 /\ Kinds \cap {Optimal, Lime, Sulfur} = {Optimal}
C12_WitnessLime ==
    Returned /\ rule_input.soil.phh2o = 50 /\ Kinds \cap {Optimal, Lime, Sulfur} = {Lime}
C12_WitnessSulfur ==
    Returned /\ rule_input.soil.phh2o = 80 /\ Kinds \cap {Optimal, Lime, Sulfur} = {Sulfur}
C12_WitnessUpper ==
    Returned /\ rule_input.soil.phh2o = 75 /\ Kinds \cap {Optimal, Lime, Sulfur} = {}

RECURSIVE Total(_, _)
Total(days, field) ==
    IF days = <<>> THEN 0 ELSE Head(days)[field] + Total(Tail(days), field)

\* C13: a call that returns emits the rain message exactly when there is a
\* forecast day and the mean of daily_chance_of_rain over all the days is
\* above 50, and the wind message exactly when there is a forecast day and the
\* mean of maxwind_kph over all the days is above 20; with no forecast day it
\* emits neither.
C13_WeatherAggregation ==
    Returned =>
        LET days == rule_input.days
            n == Len(days)
        IN  /\ Rain \in Kinds
                  <=> (n > 0 /\ Total(days, "daily_chance_of_rain") > 50 * n)
            /\ Wind \in Kinds
                  <=> (n > 0 /\ Total(days, "maxwind_kph") > 20 * n)
            /\ n = 0 => Kinds \cap {Rain, Wind} = {}

\* Rain [80, 40] and wind [25, 25]: both messages, with 60.0 and 25.0.
C13_Witness ==
    /\ Returned
    /\ Len(rule_input.days) = 2
    /\ rule_input.days[1].daily_chance_of_rain = 80
    /\ rule_input.days[2].daily_chance_of_rain = 40
    /\ rule_input.days[1].maxwind_kph = 25
    /\ rule_input.days[2].maxwind_kph = 25
    /\ Msg(Rain, 600) \in rule_output.msgs
    /\ Msg(Wind, 250) \in rule_output.msgs

\* Rain [80, 20] and wind [25, 15]: the first day is above both thresholds,
\* the means are exactly 50 and 20, and neither message is emitted.
C13_WitnessWholeWindow ==
    /\ Returned
    /\ Len(rule_input.days) = 2
    /\ rule_input.days[1].daily_chance_of_rain = 80
    /\ rule_input.days[2].daily_chance_of_rain = 20
    /\ rule_input.days[1].maxwind_kph = 25
    /\ rule_input.days[2].maxwind_kph = 15
    /\ Kinds \cap {Rain, Wind} = {}

\* No forecast day: neither message.
C13_WitnessNoForecast ==
    Returned /\ rule_input.days = <<>> /\ Kinds \cap {Rain, Wind} = {}

\* C14: a call that returns emits the fertilizer message exactly when
\* nitrogen < 100, whatever the other arguments, and emits it at most once.
C14_NitrogenRule ==
    Returned =>
        /\ Fertilizer \in Kinds <=> rule_input.soil.nitrogen < 100
        /\ Cardinality({m \in rule_output.msgs : m.kind = Fertilizer}) <= 1

\* nitrogen = 100: no fertilizer message.
C14_Witness ==
    Returned /\ rule_input.soil.nitrogen = 100 /\ Fertilizer \notin Kinds

\* nitrogen = 50 and 150: the message is emitted, once, and is not.
C14_WitnessLow ==
    /\ Returned
    /\ rule_input.soil.nitrogen = 50
    /\ Cardinality({m \in rule_output.msgs : m.kind = Fertilizer}) = 1
C14_WitnessHigh ==
    Returned /\ rule_input.soil.nitrogen = 150 /\ Fertilizer \notin Kinds

\* The dict of measurements with 0 in the place of each None.
Zeroed(soil) == [k \in DOMAIN soil |-> IF soil[k] = Null THEN 0 ELSE soil[k]]
Absent(soil) == {k \in DOMAIN soil : soil[k] = Null}

\* C15: a call in which a measurement is absent (None, as analyze_soil passes
\* it) returns the messages of the same call with 0 for that measurement:
\* the fertilizer message for an absent nitrogen, the irrigation message for
\* an absent moisture, the lime message for an absent pH, no CEC message for
\* an absent cec.
C15_AbsentDefaultsToZero ==
    (rule_output.called /\ Absent(rule_input.soil) # {}) =>
        /\ ~rule_output.raised
        /\ rule_output.msgs
              = generate_recommendations(Zeroed(rule_input.soil), rule_input.days)
        /\ "nitrogen" \in Absent(rule_input.soil) => Fertilizer \in Kinds
        /\ "wv0010" \in Absent(rule_input.soil) => Irrigation \in Kinds
        /\ "phh2o" \in Absent(rule_input.soil) => Lime \in Kinds
        /\ "cec" \in Absent(rule_input.soil) => CecOptimal \notin Kinds

\* The request of thread p has ended after a fetch that failed.
FailedAtFetch(p) ==
    /\ pc[p] = "done"
    /\ fetched[p].soil = "failed" \/ fetched[p].weather = "failed"

\* C16: with requests handled one at a time, a request that failed at the
\* fetch stage leaves the table as it found it: the record its lookup found,
\* stale or not, is still stored, and the request has inserted nothing.
C16_NoPartialPersistence ==
    \A p \in Procs :
        FailedAtFetch(p) =>
            /\ existing_record[p].found => existing_record[p].rec \in Stored(store)
            /\ new_record[p] = NoRecord

\* C18: under every interleaving of concurrent requests, a step that removes
\* a record from the table removes a record older than two days at that
\* moment, and that record is the one the lookup of the deleting request found.
C18_OnlyStaleDeleted ==
    [][\A r \in Stored(store) \ Stored(store') :
          /\ AgeOf(r) > 172800
          /\ \E p \in Procs :
                /\ pc[p] = "check" /\ pc'[p] = "soil"
                /\ existing_record[p].rec = r]_vars

\* C17: no step changes a field of a stored record: a stored record is
\* stored unchanged after the step or no record with its id is stored; and a
\* step changes the table only by inserting one new record or by deleting one
\* record that is older than two days.
C17_NeverUpdatedInPlace ==
    [][/\ \A r \in Stored(store) :
             r \in Stored(store') \/ \A x \in Stored(store') : x.id # r.id
       /\ \/ store' = store
          \/ \E x \in Stored(store') \ Stored(store) :
                Stored(store') = Stored(store) \cup {x}
          \/ \E r \in Stored(store) \ Stored(store') :
                /\ Stored(store') = Stored(store) \ {r}
                /\ AgeOf(r) > 172800]_vars

\* The part of C17 that holds under every interleaving: the fields of a
\* stored record, date_recorded included, never change, and every step that
\* changes the table inserts one record or deletes one record.
C17_FieldsNeverChange ==
    [][/\ \A r \in Stored(store) :
             r \in Stored(store') \/ \A x \in Stored(store') : x.id # r.id
       /\ \/ store' = store
          \/ \E x \in Stored(store') \ Stored(store) :
                Stored(store') = Stored(store) \cup {x}
          \/ \E r \in Stored(store) \ Stored(store') :
                Stored(store') = Stored(store) \ {r}]_vars

\* C19: the pH that a cache hit on a record reports equals the pH that the
\* request which created the record reported.
C19_SamePhReported ==
    \A p, q \in Procs :
        (/\ pc[p] = "done" /\ resp[p].status = "found"
         /\ pc[q] = "done" /\ resp[q].status = "success"
         /\ existing_record[p].rec = new_record[q])
        => resp[p].ph10 = resp[q].ph10

====
